---- MODULE Spec2Model ----
(***************************************************************************)
(* Model of the client-side session controller of playwright-crx           *)
(* (src/client/crx.ts): class Crx with its two promise slots, start,       *)
(* _start, forceReset, get, and the close event of CrxApplication.         *)
(*                                                                         *)
(* JavaScript runs the code between two awaits atomically, so every action *)
(* below is one such run: from the call, or from the resumption of an      *)
(* await, up to the next await or return.  The remote host (channel) and   *)
(* the browsing context are the environment: a remote start resolves or    *)
(* rejects, a close request resolves or rejects, a context emits close,    *)
(* and the liveness probe (context.pages()) succeeds or throws.            *)
(*                                                                         *)
(* The resumptions of awaits are interleaved freely with the calls and the *)
(* events, which covers every order the event loop can produce.  The only  *)
(* exception is the continuation of _start: it runs in the microtask that  *)
(* follows the remote response, before any later event of the connection,  *)
(* so the close handler is registered in the step that resolves the start. *)
(***************************************************************************)
EXTENDS Integers, FiniteSets, Sequences, TLC

\* Bounds of the model.
NumCallers == 2    \* concurrent external calls of start
MaxStarts == 2     \* remote start requests issued in one behaviour
MaxResets == 2     \* forceReset calls made by one start invocation
MaxInFlight == 2   \* recorder requests, and recorder events, in flight at a time
MaxCalls == 2      \* calls of attachAll made on one application

Modes == {"normal", "incognito"}
\* The logical tasks of the host process: each caller makes one call of
\* start; task 0 makes one external call of forceReset.  The callers are
\* interchangeable, so they make their calls in the order of their numbers.
Callers == 1..NumCallers
Procs == 0..NumCallers
Ids == 1..MaxStarts

\* Messages of the errors a remote start can reject with: one whose text
\* contains 'already started' and one whose text does not.
Errors == {"remote failure", "remote: crxApplication is already started"}

VARIABLES
  slot,       \* _crxAppPromise / _incognitoCrxPromise: mode -> promise id, 0 = undefined
  created,    \* number of promises returned by _start so far
  pstate,     \* promise id -> "none" | "pending" | "resolved" | "rejected"
  perr,       \* promise id -> message of the rejection ("" when not rejected)
  pmode,      \* promise id -> mode whose onClose the _start call was given
  sess,       \* CrxApplication of promise id: "none" | "live" | "closed"
  closeReq,   \* ids of the applications on which close() was called
  task,       \* caller -> the frame of its running start / forceReset call
  pby,        \* promise id -> the caller whose start issued it (history)
  dropped,    \* ids taken out of a slot by forceReset, or by the close
              \* event of another application (history)
  resetMark,  \* value of created at the latest forceReset call (history)
  hidden,     \* CrxRecorder._hidden
  mode,       \* CrxRecorder._mode
  requests,   \* recorder requests sent on the channel, not yet handled by the host
  events,     \* recorder events emitted by the host, not yet delivered
  calls       \* the calls of attachAll so far: options given, request sent

\* the variables of the session controller (class Crx)
crxVars == <<slot, created, pstate, perr, pmode, sess, closeReq, task, pby, dropped, resetMark>>
\* the variables of one application (CrxApplication and its CrxRecorder)
appVars == <<hidden, mode, requests, events, calls>>
vars == <<crxVars, appVars>>

NoResult == [kind |-> "none", app |-> 0, err |-> ""]
AppResult(id) == [kind |-> "app", app |-> id, err |-> ""]
ErrResult(e) == [kind |-> "error", app |-> 0, err |-> e]
\* the rejection of promise i, rethrown
Rethrown(i) == [kind |-> "error", app |-> i, err |-> perr[i]]

IdleTask ==
  [pc |-> "idle", op |-> "none", mode |-> "normal", mine |-> 0, existing |-> 0,
   oldN |-> 0, oldI |-> 0, resets |-> 0, result |-> NoResult,
   joined |-> 0, startMark |-> 0, failed |-> {}]

\* private _hidden: boolean = true; private _mode: Mode = 'none'; nothing
\* is in flight on the channel
RecorderInit ==
  /\ hidden = TRUE
  /\ mode = "none"
  /\ requests = <<>>
  /\ events = <<>>

Init ==
  /\ slot = [m \in Modes |-> 0]
  /\ created = 0
  /\ pstate = [i \in Ids |-> "none"]
  /\ perr = [i \in Ids |-> ""]
  /\ pmode = [i \in Ids |-> "normal"]
  /\ sess = [i \in Ids |-> "none"]
  /\ closeReq = {}
  /\ task = [p \in Procs |-> IdleTask]
  /\ pby = [i \in Ids |-> 0]
  /\ dropped = {}
  /\ resetMark = 0
  /\ RecorderInit
  /\ calls = <<>>

(***************************************************************************)
(* Helpers translated from the source.                                     *)
(***************************************************************************)

\* start without the check of the slot
AlreadyStartedNoCheck(m) == FALSE

\* if (this._incognitoCrxPromise) / if (this._crxAppPromise)
AlreadyStarted(m) == slot[m] # 0

\* both branches of start assigning the same field
StoreSameField(m, id) == [slot EXCEPT !["normal"] = id]

\* this._incognitoCrxPromise = this._start(...) / this._crxAppPromise = this._start(...)
Store(m, id) == [slot EXCEPT ![m] = id]

\* throw new Error(`incognito crxApplication is already started`) /
\* throw new Error(`crxApplication is already started`)
InternalError(m) ==
  IF m = "incognito" THEN "incognito crxApplication is already started"
  ELSE "crxApplication is already started"

\* a catch block that looks for another text
IncludesOtherText(e) == FALSE

\* error.message && error.message.includes('already started'), on the
\* messages of the model
IncludesAlreadyStarted(e) ==
  e \in {"remote: crxApplication is already started",
         "crxApplication is already started",
         "incognito crxApplication is already started"}

\* forceReset that clears nothing
ClearedNothing == slot

\* forceReset that clears the normal slot only
ClearedNormalOnly == [slot EXCEPT !["normal"] = 0]

\* forceReset that clears the incognito slot only
ClearedIncognitoOnly == [slot EXCEPT !["incognito"] = 0]

\* this._crxAppPromise = undefined; this._incognitoCrxPromise = undefined;
ClearedSlots == [m \in Modes |-> 0]

\* an onClose that leaves the slot alone
OnCloseKeeps(m) == slot

\* both onClose callbacks clearing the same field
OnCloseSameField(m) == [slot EXCEPT !["normal"] = 0]

\* the onClose callbacks: () => this._crxAppPromise = undefined, and the
\* incognito one; neither looks at what the slot holds
OnClose(m) == [slot EXCEPT ![m] = 0]

\* a forceReset without its try blocks: the error leaves forceReset
RethrowErrors(e) == FALSE

\* try { ... } catch (e) { /* Ignore errors */ } around each old promise of
\* forceReset, and .catch(() => {}) on app.close(): the error is dropped
IgnoreErrors(e) == TRUE

\* a forceReset that awaits the old start and sends no close request
CloseNotRequested(i) == closeReq

\* app.close(): the close request for application i is sent
CloseRequested(i) == closeReq \cup {i}

\* the rejection of a close request
CloseError == "remote close failure"

\* get(options): the awaited value of the mode's slot
Get(m) ==
  IF slot[m] = 0 THEN [kind |-> "absent", app |-> 0, err |-> ""]
  ELSE IF pstate[slot[m]] = "pending" THEN [kind |-> "waiting", app |-> 0, err |-> ""]
  ELSE IF pstate[slot[m]] = "resolved" THEN AppResult(slot[m])
  ELSE ErrResult(perr[slot[m]])

\* the end of forceReset: an external call is done; in a start call the
\* await of this.forceReset() has still to resume
AfterReset(op) == IF op = "forceReset" THEN "done" ELSE "frReturn"

\* forceReset after the first try block: if (oldIncognitoPromise) { await ...
AfterNormal(oldI, op) == IF oldI # 0 THEN "frAwaitI" ELSE AfterReset(op)

\* forceReset after the two assignments: if (oldCrxPromise) { await ...
FirstStage(oldN, oldI, op) == IF oldN # 0 THEN "frAwaitN" ELSE AfterNormal(oldI, op)

(***************************************************************************)
(* start: the code run by a call of start(options) up to its first await.  *)
(***************************************************************************)
\* slot empty: the slot takes the promise of _start, which has called
\* this._channel.start; the caller awaits that promise
StartFresh(p, m, t) ==
  /\ ~AlreadyStarted(m)
  /\ created < MaxStarts
  /\ created' = created + 1
  /\ slot' = Store(m, created + 1)
  /\ pstate' = [pstate EXCEPT ![created + 1] = "pending"]
  /\ pmode' = [pmode EXCEPT ![created + 1] = m]
  /\ pby' = [pby EXCEPT ![created + 1] = p]
  /\ task' = [task EXCEPT ![p] = [t EXCEPT !.pc = "awaitStart", !.mine = created + 1]]
  /\ UNCHANGED <<appVars, perr, sess, closeReq, dropped, resetMark>>

\* slot non-empty: throw 'already started', caught at once; existingPromise
\* is the slot's promise and the caller awaits it
StartExisting(p, m, t) ==
  /\ AlreadyStarted(m)
  /\ IF IncludesAlreadyStarted(InternalError(m)) /\ slot[m] # 0
       THEN task' = [task EXCEPT ![p] = [t EXCEPT !.pc = "probeAwait", !.existing = slot[m]]]
       ELSE task' = [task EXCEPT ![p] = [t EXCEPT !.pc = "done",
                                                  !.result = ErrResult(InternalError(m))]]
  /\ UNCHANGED <<appVars, slot, created, pstate, perr, pmode, sess, closeReq, pby, dropped, resetMark>>

StartBody(p, m, t) == StartFresh(p, m, t) \/ StartExisting(p, m, t)

\* an external call of start(options)
StartCall(p, m) ==
  /\ task[p].pc = "idle"
  /\ \A q \in Callers : q < p => task[q].pc # "idle"
  /\ StartBody(p, m, [task[p] EXCEPT !.op = "start", !.mode = m, !.startMark = resetMark])

\* the same call, recording the start it found pending in the slot instead
\* of the latest forceReset
StartCallRace(p, m) ==
  /\ task[p].pc = "idle"
  /\ \A q \in Callers : q < p => task[q].pc # "idle"
  /\ StartBody(p, m, [task[p] EXCEPT !.op = "start", !.mode = m,
                        !.joined = IF slot[m] # 0 /\ pstate[slot[m]] = "pending"
                                   THEN slot[m] ELSE 0])

(***************************************************************************)
(* _start and the remote host.                                             *)
(***************************************************************************)
\* this._channel.start resolves: _start registers onClose and returns crxApp
RemoteStartResolve(i) ==
  /\ pstate[i] = "pending"
  /\ pstate' = [pstate EXCEPT ![i] = "resolved"]
  /\ sess' = [sess EXCEPT ![i] = "live"]
  /\ UNCHANGED <<appVars, slot, created, perr, pmode, closeReq, task, pby, dropped, resetMark>>

\* this._channel.start rejects: the promise of _start rejects with the error
RemoteStartReject(i, e) ==
  /\ pstate[i] = "pending"
  /\ pstate' = [pstate EXCEPT ![i] = "rejected"]
  /\ perr' = [perr EXCEPT ![i] = e]
  /\ UNCHANGED <<appVars, slot, created, pmode, sess, closeReq, task, pby, dropped, resetMark>>

\* the context of application i emits close; the application re-emits it
\* and the onClose registered by _start runs
CloseEvent(i) ==
  /\ sess[i] = "live"
  /\ sess' = [sess EXCEPT ![i] = "closed"]
  /\ slot' = OnClose(pmode[i])
  /\ dropped' = dropped \cup ({slot[pmode[i]]} \ {0, i})
  /\ UNCHANGED <<appVars, created, pstate, perr, pmode, closeReq, task, pby, resetMark>>

(***************************************************************************)
(* forceReset.                                                             *)
(***************************************************************************)
\* the code of forceReset up to its first await: both old promises are
\* read, both slots are cleared, and the first await (if any) is reached
ForceResetBody(p, t) ==
  /\ slot' = ClearedSlots
  /\ resetMark' = created
  /\ dropped' = dropped \cup ({slot[m] : m \in Modes} \ {0})
  /\ task' = [task EXCEPT ![p] = [t EXCEPT !.oldN = slot["normal"], !.oldI = slot["incognito"],
                                           !.pc = FirstStage(slot["normal"], slot["incognito"], t.op)]]
  /\ UNCHANGED <<appVars, created, pstate, perr, pmode, sess, closeReq, pby>>

\* an error leaves the running call: an external forceReset rejects with it,
\* and so does a start that awaited this.forceReset() in its catch block
Thrown(t, r) == [t EXCEPT !.pc = "done", !.result = r, !.oldN = 0, !.oldI = 0]

\* an external call of forceReset()
ForceResetCall(p) ==
  /\ p \notin Callers
  /\ task[p].pc = "idle"
  /\ ForceResetBody(p, [task[p] EXCEPT !.op = "forceReset"])

\* const app = await oldCrxPromise resumes: app.close() is called, or the
\* rejection is caught and ignored
ResetAwaitNormal(p) ==
  /\ task[p].pc = "frAwaitN"
  /\ pstate[task[p].oldN] # "pending"
  /\ IF pstate[task[p].oldN] = "resolved"
       THEN /\ closeReq' = CloseRequested(task[p].oldN)
            /\ task' = [task EXCEPT ![p].pc = "frCloseN"]
       ELSE /\ closeReq' = closeReq
            /\ IF IgnoreErrors(perr[task[p].oldN])
                 THEN task' = [task EXCEPT ![p].pc = AfterNormal(task[p].oldI, task[p].op),
                                           ![p].oldN = 0]
                 ELSE task' = [task EXCEPT ![p] = Thrown(task[p], Rethrown(task[p].oldN))]
  /\ UNCHANGED <<appVars, slot, created, pstate, perr, pmode, sess, pby, dropped, resetMark>>

\* await app.close().catch(() => {}) resumes, whether the close request
\* resolved or rejected
ResetCloseNormal(p) ==
  /\ task[p].pc = "frCloseN"
  /\ \E ok \in BOOLEAN :
       IF ok \/ IgnoreErrors(CloseError)
         THEN task' = [task EXCEPT ![p].pc = AfterNormal(task[p].oldI, task[p].op), ![p].oldN = 0]
         ELSE task' = [task EXCEPT ![p] = Thrown(task[p], ErrResult(CloseError))]
  /\ UNCHANGED <<appVars, slot, created, pstate, perr, pmode, sess, closeReq, pby, dropped, resetMark>>

\* const app = await oldIncognitoPromise resumes
ResetAwaitIncognito(p) ==
  /\ task[p].pc = "frAwaitI"
  /\ pstate[task[p].oldI] # "pending"
  /\ IF pstate[task[p].oldI] = "resolved"
       THEN /\ closeReq' = CloseRequested(task[p].oldI)
            /\ task' = [task EXCEPT ![p].pc = "frCloseI"]
       ELSE /\ closeReq' = closeReq
            /\ IF IgnoreErrors(perr[task[p].oldI])
                 THEN task' = [task EXCEPT ![p].pc = AfterReset(task[p].op), ![p].oldI = 0]
                 ELSE task' = [task EXCEPT ![p] = Thrown(task[p], Rethrown(task[p].oldI))]
  /\ UNCHANGED <<appVars, slot, created, pstate, perr, pmode, sess, pby, dropped, resetMark>>

ResetCloseIncognito(p) ==
  /\ task[p].pc = "frCloseI"
  /\ \E ok \in BOOLEAN :
       IF ok \/ IgnoreErrors(CloseError)
         THEN task' = [task EXCEPT ![p].pc = AfterReset(task[p].op), ![p].oldI = 0]
         ELSE task' = [task EXCEPT ![p] = Thrown(task[p], ErrResult(CloseError))]
  /\ UNCHANGED <<appVars, slot, created, pstate, perr, pmode, sess, closeReq, pby, dropped, resetMark>>

(***************************************************************************)
(* start: the resumptions of its awaits.                                   *)
(***************************************************************************)
\* return await this._crxAppPromise resumes with the application
StartReturns(p) ==
  /\ task[p].pc = "awaitStart"
  /\ pstate[task[p].mine] = "resolved"
  /\ task' = [task EXCEPT ![p].pc = "done", ![p].result = AppResult(task[p].mine), ![p].mine = 0]
  /\ UNCHANGED <<appVars, slot, created, pstate, perr, pmode, sess, closeReq, pby, dropped, resetMark>>

\* return await this._crxAppPromise throws: the catch block rethrows the
\* error unless its message includes 'already started' and the slot is
\* non-empty, in which case the slot's promise is awaited
StartThrows(p) ==
  /\ task[p].pc = "awaitStart"
  /\ pstate[task[p].mine] = "rejected"
  /\ IF IncludesAlreadyStarted(perr[task[p].mine]) /\ slot[task[p].mode] # 0
       THEN task' = [task EXCEPT ![p].pc = "probeAwait", ![p].existing = slot[task[p].mode]]
       ELSE task' = [task EXCEPT ![p].pc = "done", ![p].result = Rethrown(task[p].mine), ![p].mine = 0]
  /\ UNCHANGED <<appVars, slot, created, pstate, perr, pmode, sess, closeReq, pby, dropped, resetMark>>

\* a probe that returns what the slot holds when the probe ends
ProbedFromSlot(p) == AppResult(slot[task[p].mode])

\* const app = await existingPromise; ... return app
Probed(p) == AppResult(task[p].existing)

\* await existingPromise resumed with the application and context.pages()
\* did not throw: return app
ProbeSucceeds(p) ==
  /\ task[p].pc = "probeAwait"
  /\ pstate[task[p].existing] = "resolved"
  /\ task' = [task EXCEPT ![p].pc = "done", ![p].result = Probed(p),
                                ![p].existing = 0, ![p].mine = 0]
  /\ UNCHANGED <<appVars, slot, created, pstate, perr, pmode, sess, closeReq, pby, dropped, resetMark>>

\* await existingPromise threw, or context.pages() threw: the inner catch
\* calls this.forceReset()
ProbeFails(p) ==
  /\ task[p].pc = "probeAwait"
  /\ pstate[task[p].existing] # "pending"
  /\ task[p].resets < MaxResets
  /\ ForceResetBody(p, [task[p] EXCEPT !.resets = @ + 1, !.failed = @ \cup {task[p].existing},
                                        !.existing = 0, !.mine = 0])

\* await this.forceReset() resumes: return this.start(options)
RetryStart(p) ==
  /\ task[p].pc = "frReturn"
  /\ task[p].op = "start"
  /\ StartBody(p, task[p].mode, task[p])

Steps ==
  \/ \E p \in Procs : ForceResetCall(p)
  \/ \E i \in Ids : RemoteStartResolve(i)
  \/ \E i \in Ids, e \in Errors : RemoteStartReject(i, e)
  \/ \E i \in Ids : CloseEvent(i)
  \/ \E p \in Procs : ResetAwaitNormal(p)
  \/ \E p \in Procs : ResetCloseNormal(p)
  \/ \E p \in Procs : ResetAwaitIncognito(p)
  \/ \E p \in Procs : ResetCloseIncognito(p)
  \/ \E p \in Procs : StartReturns(p)
  \/ \E p \in Procs : StartThrows(p)
  \/ \E p \in Procs : ProbeSucceeds(p)
  \/ \E p \in Procs : ProbeFails(p)
  \/ \E p \in Procs : RetryStart(p)

Next ==
  \/ \E p \in Callers, m \in Modes : StartCall(p, m)
  \/ Steps

Spec == Init /\ [][Next]_vars

\* The system when every remote request settles: a pending remote start
\* resolves or rejects, a close request resolves or rejects, and the event
\* loop resumes the await of forceReset whose promise has settled.  A
\* behaviour cannot postpone all of these steps for ever.
Settling ==
  \/ \E i \in Ids : RemoteStartResolve(i)
  \/ \E i \in Ids, e \in Errors : RemoteStartReject(i, e)
  \/ \E p \in Procs : ResetAwaitNormal(p) \/ ResetCloseNormal(p)
  \/ \E p \in Procs : ResetAwaitIncognito(p) \/ ResetCloseIncognito(p)

Settles == WF_vars(Settling)

SpecLive == Init /\ [][Next]_vars /\ Settles

\* The same system with the history of concurrent calls of start recorded.
NextRace ==
  \/ \E p \in Callers, m \in Modes : StartCallRace(p, m)
  \/ Steps

SpecRace == Init /\ [][NextRace]_vars

TypeOK ==
  /\ slot \in [Modes -> 0..MaxStarts]
  /\ created \in 0..MaxStarts
  /\ \A i \in Ids : pstate[i] \in {"none", "pending", "resolved", "rejected"}
  /\ \A i \in Ids : sess[i] \in {"none", "live", "closed"}
  /\ closeReq \subseteq Ids
  /\ \A p \in Procs : task[p].pc \in {"idle", "awaitStart", "probeAwait", "frAwaitN", "frCloseN",
                                       "frAwaitI", "frCloseI", "frReturn", "done"}

(***************************************************************************)
(* CrxRecorder: the commands send a request on the channel; the host       *)
(* handles the requests in order and emits events, also of its own accord  *)
(* (the user acts on the recorder window); the channel delivers the events *)
(* in order to the handlers registered by the constructor.                 *)
(***************************************************************************)
\* values of Mode: 'none' and two of the recording modes
RecModes == {"none", "recording", "inspecting"}

ShowRequest == [type |-> "showRecorder", mode |-> "none"]
HideRequest == [type |-> "hideRecorder", mode |-> "none"]
SetModeRequest(md) == [type |-> "setMode", mode |-> md]

ShowEvent == [type |-> "show", mode |-> "none"]
HideEvent == [type |-> "hide", mode |-> "none"]
ModeChangedEvent(md) == [type |-> "modeChanged", mode |-> md]
RecEvents == {ShowEvent, HideEvent} \cup {ModeChangedEvent(md) : md \in RecModes}

\* commands that set the local state at once, without waiting for the event
AfterCommandOptimistic(r) ==
  [hidden |-> IF r.type = "showRecorder" THEN FALSE
              ELSE IF r.type = "hideRecorder" THEN TRUE ELSE hidden,
   mode |-> IF r.type = "setMode" THEN r.mode ELSE mode]

\* setMode, show, hide: await this._channel.<request>(...) and nothing else
AfterCommand(r) == [hidden |-> hidden, mode |-> mode]

\* a command of the recorder sends request r
Command(r) ==
  /\ Len(requests) < MaxInFlight
  /\ requests' = Append(requests, r)
  /\ hidden' = AfterCommand(r).hidden
  /\ mode' = AfterCommand(r).mode
  /\ UNCHANGED <<crxVars, calls, events>>

\* async setMode(mode)
SetMode(md) == Command(SetModeRequest(md))
\* async show(options)
Show == Command(ShowRequest)
\* async hide()
Hide == Command(HideRequest)

\* the event the host answers request r with
Echo(r) ==
  IF r.type = "showRecorder" THEN ShowEvent
  ELSE IF r.type = "hideRecorder" THEN HideEvent
  ELSE ModeChangedEvent(r.mode)

\* the host handles the oldest request and emits the corresponding event
HostHandles ==
  /\ requests # <<>>
  /\ Len(events) < MaxInFlight
  /\ requests' = Tail(requests)
  /\ events' = Append(events, Echo(Head(requests)))
  /\ UNCHANGED <<crxVars, calls, hidden, mode>>

\* the host emits an event of its own accord
HostEmits(e) ==
  /\ Len(events) < MaxInFlight
  /\ events' = Append(events, e)
  /\ UNCHANGED <<crxVars, calls, hidden, mode, requests>>

\* this._channel.on('hide', ...), on('show', ...), on('modeChanged', ...):
\* the oldest event is delivered to its handler
Deliver ==
  /\ events # <<>>
  /\ events' = Tail(events)
  /\ hidden' = IF Head(events).type = "hide" THEN TRUE
               ELSE IF Head(events).type = "show" THEN FALSE ELSE hidden
  /\ mode' = IF Head(events).type = "modeChanged" THEN Head(events).mode ELSE mode
  /\ UNCHANGED <<crxVars, calls, requests>>

NextRecorder ==
  \/ \E md \in RecModes : SetMode(md)
  \/ Show
  \/ Hide
  \/ HostHandles
  \/ \E e \in RecEvents : HostEmits(e)
  \/ Deliver

SpecRecorder == Init /\ [][NextRecorder]_vars

(***************************************************************************)
(* CrxApplication.attachAll: the request it sends for the options given.   *)
(***************************************************************************)
Undefined == [kind |-> "undefined", str |-> "", arr |-> <<>>]
String(s) == [kind |-> "string", str |-> s, arr |-> <<>>]
Array(a) == [kind |-> "array", str |-> "", arr |-> a]

\* url patterns, the empty string among them
Strings == {"", "https://x", "*://y/*"}
\* values of options.url: undefined, a string, or an array of strings
Urls ==
  {Undefined} \cup {String(s) : s \in Strings}
    \cup {Array(<<>>)} \cup {Array(<<s>>) : s \in Strings} \cup {Array(<<"https://x", "*://y/*">>)}
\* the other properties of the options, passed through as they are
Remainings == {"{}", "{ lastFocusedWindow: true }"}
\* the argument of attachAll: not given, or an options object
AttachAllOptions ==
  {[given |-> FALSE, remaining |-> "{}", url |-> Undefined]}
    \cup [given : {TRUE}, remaining : Remainings, url : Urls]

\* the condition of urlOrUrls ? ... : ..., for a string or array or
\* undefined: the empty string and undefined are falsy, every array is truthy
Truthy(v) == v.kind = "array" \/ (v.kind = "string" /\ v.str # "")

\* const { url: urlOrUrls, ...remaining } = options ?? {};
\* const url = urlOrUrls ? typeof urlOrUrls === 'string' ? [urlOrUrls] : urlOrUrls : undefined;
\* const params = { ...remaining, url };
AttachAllParams(options) ==
  LET urlOrUrls == IF options.given THEN options.url ELSE Undefined
      remaining == IF options.given THEN options.remaining ELSE "{}"
      url == IF Truthy(urlOrUrls)
               THEN IF urlOrUrls.kind = "string" THEN Array(<<urlOrUrls.str>>) ELSE urlOrUrls
               ELSE Undefined
  IN [remaining |-> remaining, url |-> url]

\* async attachAll(options): this._channel.attachAll(params) is sent
AttachAll(options) ==
  /\ Len(calls) < MaxCalls
  /\ calls' = Append(calls, [options |-> options, params |-> AttachAllParams(options)])
  /\ UNCHANGED <<crxVars, hidden, mode, requests, events>>

NextAttach == \E options \in AttachAllOptions : AttachAll(options)

SpecAttach == Init /\ [][NextAttach]_vars

(***************************************************************************)
(* Properties.                                                             *)
(***************************************************************************)
Done(p) == task[p].pc = "done"
GotApp(p) == Done(p) /\ task[p].result.kind = "app"
InReset(p) == task[p].pc \in {"frAwaitN", "frCloseN", "frAwaitI", "frCloseI"}
Outstanding(m) == {i \in Ids : pstate[i] = "pending" /\ pmode[i] = m}
Live(m) == {i \in Ids : sess[i] = "live" /\ pmode[i] = m}

\* the step is one of a call of start for mode m (its recovery included)
StartStep(m) == \E p \in Callers : task'[p] # task[p] /\ task'[p].mode = m
\* the step is the settling of a remote start for mode m, or the close event
\* of an application of mode m
RemoteStep(m) ==
  /\ task' = task
  /\ \E i \in Ids : pmode[i] = m /\ (pstate'[i] # pstate[i] \/ sess'[i] # sess[i])
\* the step is a call of forceReset by p, up to the first await
ResetCallStep(p) ==
  /\ task[p].pc \in {"idle", "probeAwait"}
  /\ task'[p].pc \in {"frAwaitN", "frAwaitI", "frReturn"} \/ (p \notin Callers /\ task'[p].pc = "done")
\* the step is a call of start(m) by p, up to the first await
StartCallStep(p, m) ==
  /\ p \in Callers
  /\ task[p].pc \in {"idle", "frReturn"}
  /\ task'[p].pc \in {"awaitStart", "probeAwait"}
  /\ task'[p].mode = m

\* b called start(mode) while the start issued by a's call was pending in
\* the slot of that mode
Concurrent(a, b) ==
  /\ a # b
  /\ task[b].joined # 0
  /\ pby[task[b].joined] = a

\* C1 as stated: two concurrent calls of start(mode) that both return an
\* application return the same application.
C1_Original ==
  \A a, b \in Callers :
    Concurrent(a, b) /\ GotApp(a) /\ GotApp(b) => task[a].result = task[b].result

\* C1 amended: when the second of two concurrent calls of start(mode) passes
\* its liveness probe (it calls no forceReset), it returns the application of
\* the start the first call issued, which is what the first call returns.
C1_SameInstance ==
  \A a, b \in Callers :
    Concurrent(a, b) /\ Done(b) /\ task[b].resets = 0 =>
      /\ task[b].result = AppResult(task[b].joined)
      /\ Done(a) => task[a].result = task[b].result

C1_Witness ==
  \E a, b \in Callers :
    /\ Concurrent(a, b) /\ GotApp(a) /\ GotApp(b)
    /\ task[b].resets = 0
    /\ task[a].result = task[b].result

\* C2 as stated: at most one remote start request is outstanding per mode.
C2_Original == \A m \in Modes : Cardinality(Outstanding(m)) <= 1

\* C2 amended: every outstanding remote start request that neither a
\* forceReset nor a close handler has taken out of its slot is the one its
\* mode's slot holds, so at most one such request is outstanding per mode; a
\* request discarded by forceReset stays outstanding next to a new one.
C2_OutstandingHeld ==
  \A i \in Ids : pstate[i] = "pending" /\ i \notin dropped => slot[pmode[i]] = i

C2_Witness ==
  \E m \in Modes : \E i, j \in Outstanding(m) :
    i # j /\ i \in dropped /\ slot[m] = j

\* C3 as stated: one call of start calls forceReset at most once.
C3_Original == \A p \in Callers : task[p].resets <= 1

\* C4 as stated: a slot never holds a rejected start, so get(mode) never
\* rejects: after the remote start rejects the slot is empty.
C4_Original == \A m \in Modes : Get(m).kind # "error"

\* C5: a call of start whose liveness probe failed never returns an
\* application whose probe failed, and ends with an error only when the
\* remote host rejected the start that the call issued after the failure
\* (the error is that rejection).
C5_NewSession ==
  \A p \in Callers :
    Done(p) /\ task[p].failed # {} =>
      \/ task[p].result.kind = "app" /\ task[p].result.app \notin task[p].failed
      \/ /\ task[p].result.kind = "error"
         /\ task[p].result.app # 0
         /\ \A f \in task[p].failed : task[p].result.app > f
         /\ pstate[task[p].result.app] = "rejected"
         /\ pby[task[p].result.app] = p
         /\ task[p].result.err = perr[task[p].result.app]

C5_Witness ==
  \E p \in Callers :
    /\ GotApp(p)
    /\ \E f \in task[p].failed : pstate[f] = "resolved"
    /\ pby[task[p].result.app] = p
    /\ task[p].result.app \notin task[p].failed

\* C6 as stated: a step of an operation invoked for one mode (start with its
\* recovery, a remote start settling, a close event) leaves the other mode's
\* slot unchanged and calls close() on no application of the other mode.
C6_Original ==
  [][\A m \in Modes :
       StartStep(m) \/ RemoteStep(m) =>
         \A o \in Modes \ {m} :
           /\ slot'[o] = slot[o]
           /\ \A i \in closeReq' \ closeReq : pmode[i] # o]_vars

\* C7 as stated: at most one live application per mode.
C7_Original == \A m \in Modes : Cardinality(Live(m)) <= 1

\* C7 amended: every live application that neither a forceReset nor the
\* close handler of another application has taken out of its slot is the
\* one its mode's slot holds, so at most one such application is live per
\* mode; an application discarded by forceReset can stay live next to a new
\* one.
C7_LiveHeld ==
  \A i \in Ids : sess[i] = "live" /\ i \notin dropped => slot[pmode[i]] = i

C7_Witness ==
  \E m \in Modes : \E i, j \in Live(m) :
    i # j /\ i \in dropped /\ slot[m] = j

\* C8: the close event of the application a slot holds empties that slot,
\* and get(mode) is then absent.
C8_CloseClears ==
  [][\A i \in Ids :
       sess[i] = "live" /\ sess'[i] = "closed" /\ slot[pmode[i]] = i =>
         slot'[pmode[i]] = 0 /\ Get(pmode[i])'.kind = "absent"]_vars

C8_Witness ==
  \E i \in Ids :
    /\ sess[i] = "closed" /\ i \notin dropped
    /\ Get(pmode[i]).kind = "absent"

\* C9: a call of start made after a call of forceReset never returns an
\* application whose start was issued before that forceReset.
C9_NoStaleSession ==
  \A p \in Callers : GotApp(p) => task[p].result.app > task[p].startMark

C9_Witness ==
  \E p \in Callers :
    /\ GotApp(p)
    /\ task[p].startMark > 0
    /\ task[0].pc # "idle"

\* C10: the step that calls forceReset leaves both slots empty and calls
\* close() on nothing; while a forceReset awaits or closes an old start no
\* slot holds that start; and a start that finds its slot empty issues a
\* new remote start in the same step.
C10_ClearsFirst ==
  [][/\ \A p \in Procs : ResetCallStep(p) =>
          /\ \A m \in Modes : slot'[m] = 0
          /\ closeReq' = closeReq
     /\ \A p \in Procs : \A m \in Modes :
          InReset(p)' => slot'[m] = 0 \/ slot'[m] \notin {task'[p].oldN, task'[p].oldI}
     /\ \A p \in Procs : \A m \in Modes :
          StartCallStep(p, m) /\ slot[m] = 0 =>
            /\ created' = created + 1
            /\ slot'[m] = created'
            /\ pstate'[created'] = "pending"]_vars

C10_Witness ==
  \E p \in Procs :
    /\ task[p].pc = "frAwaitN"
    /\ pstate[task[p].oldN] = "pending"
    /\ slot["normal"] # 0
    /\ pstate[slot["normal"]] = "pending"

\* C11: forceReset never fails.  No call of forceReset ends with an error,
\* whether its slots were empty, a start it held had rejected, or a close
\* request rejected; the only error a call of start ends with is the
\* rejection of the remote start it issued itself and awaited directly.
C11_ResetNeverFails ==
  \A p \in Procs :
    task[p].result.kind = "error" =>
      /\ task[p].op = "start"
      /\ task[p].result.app # 0
      /\ pby[task[p].result.app] = p
      /\ task[p].result.app \notin task[p].failed
      /\ task[p].result.err = perr[task[p].result.app]

\* the external forceReset held a start that rejected, and is done
C11_Witness ==
  /\ task[0].pc = "done"
  /\ task[0].result.kind = "none"
  /\ \A p \in Callers : task[p].resets = 0
  /\ \E i \in dropped : i <= resetMark /\ pstate[i] = "rejected"

\* C12: every start that a call of forceReset took out of a slot, one still
\* pending included, eventually has a close request sent for its
\* application, unless the start rejected and there is no application;
\* this under the assumption that every remote request settles.
C12_EventuallyClosed ==
  \A i \in Ids :
    (\E p \in Procs : InReset(p) /\ i \in {task[p].oldN, task[p].oldI})
      ~> (i \in closeReq \/ pstate[i] = "rejected")

\* a forceReset has sent close requests for the applications of both slots
C12_Witness ==
  \E p \in Procs :
    /\ task[p].pc = "frCloseI"
    /\ task[p].oldI \in closeReq
    /\ \E j \in closeReq \cap dropped : pmode[j] = "normal"

\* C13: no call of start ends with the error that start throws itself when
\* it finds the slot non-empty; every error a call of start ends with is
\* the rejection of a remote start.
C13_NoInternalError ==
  \A p \in Callers :
    task[p].result.kind = "error" =>
      /\ \A m \in Modes : task[p].result.err # InternalError(m)
      /\ task[p].result.err \in Errors
      /\ \E i \in Ids : pstate[i] = "rejected" /\ perr[i] = task[p].result.err

\* a call found the slot holding the start of another call, its probe
\* failed, and it ended with the rejection of a remote start
C13_Witness ==
  \E p \in Callers :
    /\ Done(p)
    /\ task[p].result.kind = "error"
    /\ \E f \in task[p].failed : pby[f] # p

\* C14 as stated: a call of start that found its slot empty and whose remote
\* start rejected ends with that rejection; it never goes on to probe the
\* slot (and so to forceReset and a retry).
C14_Original ==
  \A p \in Callers :
    task[p].pc = "probeAwait" =>
      ~(task[p].mine # 0 /\ pstate[task[p].mine] = "rejected")

\* C15: the recorder starts hidden with mode none; isHidden() and mode()
\* change only in a step that delivers an inbound event, and a step in
\* which show(), hide() or setMode() sends its request leaves both
\* unchanged.
C15_EventsOnly ==
  /\ hidden = TRUE /\ mode = "none"
  /\ [][/\ hidden' # hidden \/ mode' # mode =>
            /\ events # <<>>
            /\ events' = Tail(events)
            /\ requests' = requests
            /\ Head(events).type \in {"hide", "show"} => mode' = mode
            /\ Head(events).type = "modeChanged" => hidden' = hidden
        /\ Len(requests') > Len(requests) => hidden' = hidden /\ mode' = mode]_vars

\* hide() and setMode('none') were called on a visible, recording recorder
\* and the local state is still visible and recording
C15_Witness ==
  /\ hidden = FALSE
  /\ mode = "recording"
  /\ requests = <<HideRequest, SetModeRequest("none")>>

\* C16: when each slot holds a started application, the close event of
\* the application of one mode empties that mode's slot only: the other
\* slot is unchanged and get of the other mode returns the same
\* application as before.
C16_OtherSlotKept ==
  [][\A i \in Ids : \A o \in Modes \ {pmode[i]} :
       /\ sess[i] = "live" /\ sess'[i] = "closed" /\ slot[pmode[i]] = i
       /\ slot[o] # 0 /\ pstate[slot[o]] = "resolved"
       => /\ slot'[pmode[i]] = 0
          /\ slot'[o] = slot[o]
          /\ Get(o)' = AppResult(slot[o])
          /\ Get(o)' = Get(o)]_vars

\* the application of one mode has closed and its slot is empty, while the
\* slot of the other mode holds the live application started before it
C16_Witness ==
  \E i, j \in Ids :
    /\ j < i /\ pmode[j] # pmode[i]
    /\ sess[i] = "closed" /\ i \notin dropped /\ slot[pmode[i]] = 0
    /\ sess[j] = "live" /\ slot[pmode[j]] = j
    /\ Get(pmode[j]) = AppResult(j)

\* C17 as stated: two calls of attachAll whose options differ only in that
\* one gives the url as a string s and the other as the array [s] send the
\* same request, for every s; and a call without url sends no url.
C17_Original ==
  \A a, b \in 1..Len(calls) :
    /\ calls[a].options.given /\ calls[b].options.given
       /\ calls[a].options.remaining = calls[b].options.remaining
       /\ calls[a].options.url.kind = "string"
       /\ calls[b].options.url = Array(<<calls[a].options.url.str>>)
       => calls[a].params = calls[b].params
    /\ calls[a].options.url = Undefined => calls[a].params.url = Undefined

\* C18: a slot that holds a start is never given another start: the only
\* change of a non-empty slot is to empty, in the step that calls forceReset
\* or in the close event of an application of that mode; and a slot takes a
\* start only when it is empty, and then the start issued in that step.
C18_NoOverwrite ==
  [][\A m \in Modes :
       slot'[m] # slot[m] =>
         \/ /\ slot[m] = 0
            /\ created' = created + 1
            /\ slot'[m] = created'
            /\ pstate[slot'[m]] = "none"
         \/ /\ slot[m] # 0
            /\ slot'[m] = 0
            /\ \/ \E p \in Procs : ResetCallStep(p)
               \/ \E i \in Ids : pmode[i] = m /\ sess[i] = "live" /\ sess'[i] = "closed"]_vars

\* a slot that was emptied holds a later start
C18_Witness ==
  \E m \in Modes : \E i \in Ids :
    /\ slot[m] # 0
    /\ i < slot[m] /\ pmode[i] = m
    /\ i \in dropped \/ sess[i] = "closed"

\* C19 as stated: the close event of an application that its mode's slot no
\* longer holds leaves the slot, which holds a newer start, as it is.
C19_Original ==
  [][\A i \in Ids :
       /\ sess[i] = "live" /\ sess'[i] = "closed"
       /\ slot[pmode[i]] \notin {0, i}
       => slot'[pmode[i]] = slot[pmode[i]]]_vars

\* C20: a call of start that finds its slot non-empty and whose probe
\* succeeds changes nothing.  The step of the call and the step in which
\* the probe succeeds leave both slots unchanged, issue no remote start and
\* send no close request, and the call returns the application of the
\* start it found in the slot.
C20_ProbeChangesNothing ==
  [][\A p \in Callers :
       /\ \A m \in Modes :
            StartCallStep(p, m) /\ slot[m] # 0 =>
              /\ task'[p].pc = "probeAwait"
              /\ task'[p].existing = slot[m]
              /\ slot' = slot /\ created' = created /\ pstate' = pstate
              /\ closeReq' = closeReq
       /\ task[p].pc = "probeAwait" /\ task'[p].pc = "done" =>
            /\ task'[p].result = AppResult(task[p].existing)
            /\ slot' = slot /\ created' = created /\ pstate' = pstate
            /\ closeReq' = closeReq]_vars

\* a call that issued no start and no forceReset returned the application
\* of another call's start, which the slot still holds
C20_Witness ==
  \E p \in Callers :
    /\ GotApp(p)
    /\ task[p].resets = 0
    /\ pby[task[p].result.app] # p
    /\ slot[task[p].mode] = task[p].result.app

====
